---- MODULE Spec2Model ----
(***************************************************************************)
(* Recursive neural network over binary parse trees, static-graph variant  *)
(* (assignment3_tf2/rnn_static_graph.py).                                  *)
(*                                                                         *)
(* Two state machines share this module:                                   *)
(*   SpecTree  - one tree through build_feed_dict, the tf.while_loop over  *)
(*               the TensorArray, and the projection / loss layers;        *)
(*   SpecTrain - train(): run_epoch, predict, lr annealing, checkpoint     *)
(*               selection and the early-stopping marker.                  *)
(*                                                                         *)
(* Tensors are symbolic.  A [1, k*embed_size] tensor is a sequence of k    *)
(* blocks; a block is either a row of the embedding matrix or the result   *)
(* of relu(x . W1 + b1) applied to a two-block input.                      *)
(***************************************************************************)
EXTENDS Integers, Sequences, FiniteSets, TLC

(***************************************************************************)
(* Bounds of the model.                                                    *)
(***************************************************************************)
\* largest number of internal nodes of a parse tree
MaxInternal == 2

\* node.label: the classes 0 and 1, and 2 for a node without a class
Labels == {0, 1, 2}

\* number of epochs train() runs (Config.max_epochs, 30 in the source)
max_epochs == 5
\* len(self.train_data) (700 in the source)
TrainSize == 2

\* Config
early_stopping == 2
\* mutant: anneal only when the loss did not fall at all
anneal_threshold_one == [num |-> 1, den |-> 1]
anneal_threshold == [num |-> 99, den |-> 100]
anneal_by == [num |-> 3, den |-> 2]
lr == [num |-> 1, den |-> 100]

\* words of the corpus: "a" is in the vocabulary, "zz" is not
Words == {"a", "zz"}
\* node.word of an internal node (None)
NoWord == "None"

(***************************************************************************)
(* Parse trees (module tree).  A node is identified by its path from the   *)
(* root (0 = left, 1 = right), so that two equal-looking subtrees are      *)
(* still different nodes, as Python objects are.                           *)
(***************************************************************************)
Prefix(b, S) == {<<b>> \o p : p \in S}

RECURSIVE Shapes(_)
Shapes(k) ==
  IF k = 0 THEN {{<<>>}}
  ELSE UNION {{{<<>>} \cup Prefix(0, l) \cup Prefix(1, r) :
                   l \in Shapes(j), r \in Shapes(k - 1 - j)} : j \in 0..(k - 1)}

AllShapes == UNION {Shapes(k) : k \in 0..MaxInternal}

Root == <<>>
left(p) == Append(p, 0)
right(p) == Append(p, 1)
ShapeLeaves(s) == {p \in s : left(p) \notin s}

\* a labelled tree: node.label for every node, node.word for every leaf
MkTree(s, lb, wd) ==
  [nodes |-> s,
   label |-> lb,
   word  |-> [p \in s |-> IF p \in ShapeLeaves(s) THEN wd[p] ELSE NoWord]]

\* the trees handed to build_feed_dict: of every shape, every labelling with
\* one word on all the leaves, and every wording with one label on all nodes
IsParseTree(t) ==
  \E s \in AllShapes :
    \/ \E lb \in [s -> Labels], w \in Words :
         t = MkTree(s, lb, [p \in ShapeLeaves(s) |-> w])
    \/ \E l \in Labels, wd \in [ShapeLeaves(s) -> Words] :
         t = MkTree(s, [p \in s |-> l], wd)

isLeaf(t, p) == left(p) \notin t.nodes

\* tree.leftTraverse: children first, then the node itself
RECURSIVE leftTraverse(_, _)
leftTraverse(t, p) ==
  IF p \notin t.nodes THEN <<>>
  ELSE leftTraverse(t, left(p)) \o leftTraverse(t, right(p)) \o <<p>>

\* utils.Vocab: token -> id, unknown tokens map to the id of "<unk>"
vocab == [a |-> 1]
unknown == 0
encode(w) == IF w \in DOMAIN vocab THEN vocab[w] ELSE unknown

(***************************************************************************)
(* Symbolic tensors.                                                       *)
(***************************************************************************)
\* tf.concat([left_tensor, right_tensor], 1)
concat(left_tensor, right_tensor) == left_tensor \o right_tensor

\* tf.expand_dims(tf.gather(embeddings, word_index), 0)
embed_word(word_index) == <<[emb |-> word_index]>>

\* mutant: the children concatenated right first
combine_children_swapped(left_tensor, right_tensor) ==
  <<[relu |-> concat(right_tensor, left_tensor)]>>

\* tf.nn.relu(tf.matmul(tf.concat([left, right], 1), W1) + b1)
combine_children(left_tensor, right_tensor) ==
  <<[relu |-> concat(left_tensor, right_tensor)]>>

\* tf.matmul(x, U) + bs
project(x) == [logits_of |-> x]

\* tf.nn.sparse_softmax_cross_entropy_with_logits
xent(lg, lb) == [logits |-> lg, labels |-> lb]

VARIABLES
  \* ---- SpecTree ----
  tree,          \* the parse tree handed to build_feed_dict
  pc,            \* "feed" -> "loop" -> "done" | "error"
  nodes_list,    \* build_feed_dict: the traversal, a sequence of nodes
  feed_dict,     \* the five placeholders, each indexed 0..N-1
  tensor_array,  \* TensorArray: written index -> tensor
  i,             \* loop variable of tf.while_loop
  reads,         \* history: TensorArray reads, in order
  writes,        \* history: TensorArray writes, in order
  fetched        \* logits, root_logits, root_prediction, full_loss, root_loss

VARIABLES
  \* ---- SpecTrain ----
  epoch,           \* loop variable of train()
  tpc,             \* position inside train() / run_epoch()
  step,            \* loop variable of the training loop of run_epoch
  session,         \* the variables of the open training session
  temp_ckpt,       \* SAVE_DIR + model_name + ".temp"
  best_ckpt,       \* SAVE_DIR + model_name
  loss_history,    \* run_epoch: the losses of this epoch's steps
  val_loss,        \* np.mean(val_losses) of this epoch
  config_lr,       \* self.config.lr
  train_op,        \* the optimizer built in __init__
  prev_epoch_loss,
  best_val_loss,
  best_val_epoch,
  stopped,
  \* history
  runs,            \* number of run_epoch calls
  last_restore,    \* what the latest saver.restore read, and for whom
  applied,         \* step size of the latest parameter update
  lr_before,       \* config.lr when the epoch began
  prev_mean,       \* the mean training loss of the epoch before this one
  dev_hist         \* the dev loss of every epoch so far

treeVars == <<tree, pc, nodes_list, feed_dict, tensor_array, i, reads, writes, fetched>>

trainVars == <<epoch, tpc, step, session, temp_ckpt, best_ckpt, loss_history,
               val_loss, config_lr, train_op, prev_epoch_loss, best_val_loss,
               best_val_epoch, stopped, runs, last_restore, applied, lr_before,
               prev_mean, dev_hist>>

vars == <<treeVars, trainVars>>

Range(s) == {s[k] : k \in 1..Len(s)}
Max(S) == CHOOSE x \in S : \A y \in S : y <= x

(***************************************************************************)
(* build_feed_dict                                                         *)
(***************************************************************************)
\* mutant: positions counted from one
NodeToIndexFromOne(nl) ==
  [n \in Range(nl) |-> Max({k \in 1..Len(nl) : nl[k] = n})]

\* for i in range(len(nodes_list)): node_to_index[nodes_list[i]] = i
NodeToIndex(nl) ==
  [n \in Range(nl) |-> Max({k \in 0..(Len(nl) - 1) : nl[k + 1] = n})]

left_children(t, nl) ==
  [k \in 0..(Len(nl) - 1) |->
     IF ~isLeaf(t, nl[k + 1]) THEN NodeToIndex(nl)[left(nl[k + 1])] ELSE -1]

right_children(t, nl) ==
  [k \in 0..(Len(nl) - 1) |->
     IF ~isLeaf(t, nl[k + 1]) THEN NodeToIndex(nl)[right(nl[k + 1])] ELSE -1]

node_word_indices(t, nl) ==
  [k \in 0..(Len(nl) - 1) |->
     IF t.word[nl[k + 1]] # NoWord THEN encode(t.word[nl[k + 1]]) ELSE -1]

build_feed_dict(t, nl) ==
  [is_leaf           |-> [k \in 0..(Len(nl) - 1) |-> isLeaf(t, nl[k + 1])],
   left_children     |-> left_children(t, nl),
   right_children    |-> right_children(t, nl),
   node_word_indices |-> node_word_indices(t, nl),
   labels            |-> [k \in 0..(Len(nl) - 1) |-> t.label[nl[k + 1]]]]

NoFeed == [is_leaf |-> <<>>, left_children |-> <<>>, right_children |-> <<>>,
           node_word_indices |-> <<>>, labels |-> <<>>]
NoFetch == [state |-> "none"]

BuildFeedDict ==
  /\ pc = "feed"
  /\ nodes_list' = leftTraverse(tree, Root)
  /\ feed_dict' = build_feed_dict(tree, nodes_list')
  /\ pc' = "loop"
  /\ UNCHANGED <<tree, tensor_array, i, reads, writes, fetched>>
  /\ UNCHANGED trainVars

(***************************************************************************)
(* tf.while_loop(loop_cond, loop_body, [tensor_array, 0])                  *)
(***************************************************************************)
\* tf.shape(is_leaf_placeholder)
Size(array) == Cardinality(DOMAIN array)

loop_cond == i < Size(feed_dict.is_leaf)

\* TensorArray.size(): one more than the largest index written
TASize(ta) == IF DOMAIN ta = {} THEN 0 ELSE Max(DOMAIN ta) + 1

\* mutant: the reads sit outside the tf.cond and run for leaves too
ChildReadsEager(k) ==
  <<[step |-> k, index |-> feed_dict.left_children[k]],
    [step |-> k, index |-> feed_dict.right_children[k]]>>

\* the indices the false_fn of the tf.cond reads for node k
ChildReads(k) ==
  IF feed_dict.is_leaf[k] THEN <<>>
  ELSE <<[step |-> k, index |-> feed_dict.left_children[k]],
         [step |-> k, index |-> feed_dict.right_children[k]]>>

\* the tf.cond of loop_body
node_tensor(k) ==
  IF feed_dict.is_leaf[k]
  THEN embed_word(feed_dict.node_word_indices[k])
  ELSE combine_children(tensor_array[feed_dict.left_children[k]],
                        tensor_array[feed_dict.right_children[k]])

\* a read of an index never written, or a second write of an index, fails
LoopBody ==
  /\ pc = "loop"
  /\ loop_cond
  /\ reads' = reads \o ChildReads(i)
  /\ IF \E c \in Range(ChildReads(i)) : c.index \notin DOMAIN tensor_array
     THEN /\ pc' = "error"
          /\ UNCHANGED <<tensor_array, i, writes>>
     ELSE IF i \in DOMAIN tensor_array
     THEN /\ pc' = "error"
          /\ writes' = Append(writes, i)
          /\ UNCHANGED <<tensor_array, i>>
     ELSE /\ tensor_array' = [k \in DOMAIN tensor_array \cup {i} |->
                                IF k = i THEN node_tensor(i) ELSE tensor_array[k]]
          /\ writes' = Append(writes, i)
          /\ i' = i + 1
          /\ pc' = "loop"
  /\ UNCHANGED <<tree, nodes_list, feed_dict, fetched>>
  /\ UNCHANGED trainVars

(***************************************************************************)
(* projection and loss layers                                              *)
(***************************************************************************)
\* tf.matmul(self.tensor_array.concat(), U) + bs : one row per entry
logits(ta) == [k \in DOMAIN ta |-> project(ta[k])]

\* mutant: the first entry taken for the root
root_index_first(ta) == 0

\* self.tensor_array.read(self.tensor_array.size() - 1)
root_index(ta) == TASize(ta) - 1
root_logits(ta) == project(ta[root_index(ta)])

\* mutant: tf.less_equal
included_indices_le(lbs) == {k \in DOMAIN lbs : lbs[k] <= 2}

\* tf.where(tf.less(labels, 2))
included_indices(lbs) == {k \in DOMAIN lbs : lbs[k] < 2}

\* the cross-entropy terms summed into full_loss
full_loss(ta, lbs) ==
  {[node |-> k, term |-> xent(logits(ta)[k], lbs[k])] : k \in included_indices(lbs)}

\* labels_placeholder[-1:]
last_label(lbs) == lbs[Size(lbs) - 1]
root_loss(ta, lbs) == xent(root_logits(ta), last_label(lbs))

Fetch ==
  /\ pc = "loop"
  /\ ~loop_cond
  /\ fetched' = [state           |-> "run",
                 logits          |-> logits(tensor_array),
                 root_logits     |-> root_logits(tensor_array),
                 root_prediction |-> [argmax |-> root_logits(tensor_array)],
                 full_loss       |-> full_loss(tensor_array, feed_dict.labels),
                 root_loss       |-> root_loss(tensor_array, feed_dict.labels)]
  /\ pc' = "done"
  /\ UNCHANGED <<tree, nodes_list, feed_dict, tensor_array, i, reads, writes>>
  /\ UNCHANGED trainVars

TreeInit ==
  /\ IsParseTree(tree)
  /\ pc = "feed"
  /\ nodes_list = <<>>
  /\ feed_dict = NoFeed
  /\ tensor_array = <<>>
  /\ i = 0
  /\ reads = <<>>
  /\ writes = <<>>
  /\ fetched = NoFetch

\* no tree is being evaluated
TreeIdle ==
  /\ tree = MkTree({Root}, [p \in {Root} |-> 0], [p \in {Root} |-> "a"])
  /\ pc = "idle"
  /\ nodes_list = <<>>
  /\ feed_dict = NoFeed
  /\ tensor_array = <<>>
  /\ i = 0
  /\ reads = <<>>
  /\ writes = <<>>
  /\ fetched = NoFetch

(***************************************************************************)
(* Floating-point losses: a ratio of integers, +inf or NaN.                *)
(***************************************************************************)
Num(n, d) == [kind |-> "num", num |-> n, den |-> d]
inf == [kind |-> "inf", num |-> 1, den |-> 1]
nan == [kind |-> "nan", num |-> 0, den |-> 1]

\* a > b ; every comparison with NaN is false
Gt(a, b) ==
  IF a.kind = "nan" \/ b.kind = "nan" THEN FALSE
  ELSE IF b.kind = "inf" THEN FALSE
  ELSE IF a.kind = "inf" THEN TRUE
  ELSE a.num * b.den > b.num * a.den

\* a < b
Lt(a, b) == Gt(b, a)

\* a * q for a positive ratio q
Times(a, q) ==
  IF a.kind = "num" THEN Num(a.num * q.num, a.den * q.den) ELSE a

\* lr / q
Div(x, q) == [num |-> x.num * q.den, den |-> x.den * q.num]

\* a + b of two losses
Add(a, b) ==
  IF a.kind = "nan" \/ b.kind = "nan" THEN nan
  ELSE IF a.kind = "inf" \/ b.kind = "inf" THEN inf
  ELSE Num(a.num * b.den + b.num * a.den, a.den * b.den)

\* a list of losses, kept as its length and its sum: the list is only ever
\* appended to and averaged
EmptyList == [len |-> 0, total |-> Num(0, 1)]
append(xs, x) == [len |-> xs.len + 1, total |-> Add(xs.total, x)]

\* np.mean of a non-empty list of losses
mean(xs) ==
  IF xs.total.kind = "num" THEN Num(xs.total.num, xs.total.den * xs.len)
  ELSE xs.total

\* the float32 losses sess.run returns: two numbers that lie exactly
\* anneal_threshold apart, and NaN (section 7 of the design: a NaN loss is
\* propagated, not handled)
LossValues == {99, 100}
ExampleLosses == {Num(v, 1) : v \in LossValues} \cup {nan}

(***************************************************************************)
(* train() and run_epoch()                                                 *)
(***************************************************************************)
NoSession == [fresh |-> -1, updates |-> -1]
NoFile == [fresh |-> -2, updates |-> -2]
NoRestore == [by |-> "none", epoch |-> -1, params |-> NoFile]

\* tf.initialize_all_variables(), run in epoch e
InitialParams(e) == [fresh |-> e, updates |-> 0]

\* mutant: every epoch starts a new model
new_model_always(e) == TRUE

\* train(): run_epoch(new_model=True) in epoch 0, run_epoch() afterwards
new_model(e) == e = 0

TrainInit ==
  /\ epoch = 0
  /\ tpc = "for"
  /\ step = 0
  /\ session = NoSession
  /\ temp_ckpt = NoFile
  /\ best_ckpt = NoFile
  /\ loss_history = EmptyList
  /\ val_loss = nan
  /\ config_lr = lr
  /\ train_op = [learning_rate |-> lr]
  /\ prev_epoch_loss = inf
  /\ best_val_loss = inf
  /\ best_val_epoch = 0
  /\ stopped = -1
  /\ runs = 0
  /\ last_restore = NoRestore
  /\ applied = lr
  /\ lr_before = lr
  /\ prev_mean = nan
  /\ dev_hist = <<>>

\* run_epoch: open the session, initialise or restore the variables
RunEpochBegin ==
  /\ tpc = "for"
  /\ epoch < max_epochs
  /\ IF new_model(epoch)
     THEN /\ session' = InitialParams(epoch)
          /\ tpc' = "train"
          /\ UNCHANGED last_restore
     ELSE /\ last_restore' = [by |-> "run_epoch", epoch |-> epoch, params |-> temp_ckpt]
          /\ IF temp_ckpt = NoFile
             THEN tpc' = "error" /\ UNCHANGED session
             ELSE tpc' = "train" /\ session' = temp_ckpt
  /\ loss_history' = EmptyList
  /\ step' = 0
  /\ runs' = runs + 1
  /\ lr_before' = config_lr
  /\ prev_mean' = IF loss_history = EmptyList THEN nan ELSE mean(loss_history)
  /\ UNCHANGED <<epoch, temp_ckpt, best_ckpt, val_loss, config_lr, train_op,
                 prev_epoch_loss, best_val_loss, best_val_epoch, stopped,
                 applied, dev_hist>>
  /\ UNCHANGED treeVars

\* the step size of train_op
step_size == train_op.learning_rate

\* sess.run([self.full_loss, self.train_op]) on one training tree
TrainStep ==
  /\ tpc = "train"
  /\ step < TrainSize
  /\ \E loss_value \in ExampleLosses :
       loss_history' = append(loss_history, loss_value)
  /\ session' = [session EXCEPT !.updates = @ + 1]
  /\ applied' = step_size
  /\ step' = step + 1
  /\ UNCHANGED <<epoch, tpc, temp_ckpt, best_ckpt, val_loss, config_lr, train_op,
                 prev_epoch_loss, best_val_loss, best_val_epoch, stopped, runs,
                 last_restore, lr_before, prev_mean, dev_hist>>
  /\ UNCHANGED treeVars

\* saver.save(sess, ...temp) after the last step; the session closes
SaveTemp ==
  /\ tpc = "train"
  /\ step = TrainSize
  /\ temp_ckpt' = session
  /\ session' = NoSession
  /\ tpc' = "predict_train"
  /\ UNCHANGED <<epoch, step, best_ckpt, loss_history, val_loss, config_lr,
                 train_op, prev_epoch_loss, best_val_loss, best_val_epoch,
                 stopped, runs, last_restore, applied, lr_before, prev_mean,
                 dev_hist>>
  /\ UNCHANGED treeVars

\* predict(self.train_data, ...temp): restore, then forward passes only
PredictTrain ==
  /\ tpc = "predict_train"
  /\ last_restore' = [by |-> "predict_train", epoch |-> epoch, params |-> temp_ckpt]
  /\ tpc' = IF temp_ckpt = NoFile THEN "error" ELSE "predict_dev"
  /\ UNCHANGED <<epoch, step, session, temp_ckpt, best_ckpt, loss_history,
                 val_loss, config_lr, train_op, prev_epoch_loss, best_val_loss,
                 best_val_epoch, stopped, runs, applied, lr_before, prev_mean,
                 dev_hist>>
  /\ UNCHANGED treeVars

\* predict(self.dev_data, ...temp, get_loss=True); run_epoch returns
\* np.mean(val_losses), some float or NaN
PredictDev ==
  /\ tpc = "predict_dev"
  /\ last_restore' = [by |-> "predict_dev", epoch |-> epoch, params |-> temp_ckpt]
  /\ \E mean_val_loss \in ExampleLosses :
       /\ val_loss' = mean_val_loss
       /\ dev_hist' = Append(dev_hist, mean_val_loss)
  /\ tpc' = IF temp_ckpt = NoFile THEN "error" ELSE "anneal"
  /\ UNCHANGED <<epoch, step, session, temp_ckpt, best_ckpt, loss_history,
                 config_lr, train_op, prev_epoch_loss, best_val_loss,
                 best_val_epoch, stopped, runs, applied, lr_before, prev_mean>>
  /\ UNCHANGED treeVars

\* lr annealing
AnnealCheck ==
  /\ tpc = "anneal"
  /\ LET epoch_loss == mean(loss_history)
     IN  /\ config_lr' = IF Gt(epoch_loss, Times(prev_epoch_loss, anneal_threshold))
                         THEN Div(config_lr, anneal_by)
                         ELSE config_lr
         /\ prev_epoch_loss' = epoch_loss
  /\ tpc' = "checkpoint"
  /\ UNCHANGED <<epoch, step, session, temp_ckpt, best_ckpt, loss_history,
                 val_loss, train_op, best_val_loss, best_val_epoch, stopped, runs,
                 last_restore, applied, lr_before, prev_mean, dev_hist>>
  /\ UNCHANGED treeVars

\* mutant: a tie counts as an improvement
improved_or_equal(v, best) == Lt(v, best) \/ v = best

\* val_loss < best_val_loss
improved(v, best) == Lt(v, best)

\* save if model has improved on val
CheckpointDecision ==
  /\ tpc = "checkpoint"
  /\ IF improved(val_loss, best_val_loss)
     THEN /\ best_ckpt' = temp_ckpt
          /\ best_val_loss' = val_loss
          /\ best_val_epoch' = epoch
     ELSE UNCHANGED <<best_ckpt, best_val_loss, best_val_epoch>>
  /\ tpc' = "stopcheck"
  /\ UNCHANGED <<epoch, step, session, temp_ckpt, loss_history, val_loss,
                 config_lr, train_op, prev_epoch_loss, stopped, runs,
                 last_restore, applied, lr_before, prev_mean, dev_hist>>
  /\ UNCHANGED treeVars

\* mutant: the break is live
after_stop_check_break(hit) == IF hit THEN "returned" ELSE "for"

\* where the loop goes after the early-stopping test (the break is commented out)
after_stop_check(hit) == "for"

\* if model has not improved for a while stop; then the next epoch
StopCheck ==
  /\ tpc = "stopcheck"
  /\ stopped' = IF epoch - best_val_epoch > early_stopping THEN epoch ELSE stopped
  /\ tpc' = after_stop_check(epoch - best_val_epoch > early_stopping)
  /\ epoch' = IF tpc' = "for" THEN epoch + 1 ELSE epoch
  /\ UNCHANGED <<step, session, temp_ckpt, best_ckpt, loss_history, val_loss,
                 config_lr, train_op, prev_epoch_loss, best_val_loss,
                 best_val_epoch, runs, last_restore, applied, lr_before,
                 prev_mean, dev_hist>>
  /\ UNCHANGED treeVars

\* range(max_epochs) is exhausted: train() returns
Return ==
  /\ tpc = "for"
  /\ epoch = max_epochs
  /\ tpc' = "returned"
  /\ UNCHANGED <<epoch, step, session, temp_ckpt, best_ckpt, loss_history,
                 val_loss, config_lr, train_op, prev_epoch_loss, best_val_loss,
                 best_val_epoch, stopped, runs, last_restore, applied, lr_before,
                 prev_mean, dev_hist>>
  /\ UNCHANGED treeVars

(***************************************************************************)
(* Specifications                                                          *)
(***************************************************************************)
InitTree == TreeInit /\ TrainInit

NextTree == BuildFeedDict \/ LoopBody \/ Fetch

SpecTree == InitTree /\ [][NextTree]_vars

InitTrain == TrainInit /\ TreeIdle

NextTrain ==
  \/ RunEpochBegin
  \/ TrainStep
  \/ SaveTemp
  \/ PredictTrain
  \/ PredictDev
  \/ AnnealCheck
  \/ CheckpointDecision
  \/ StopCheck
  \/ Return

SpecTrain == InitTrain /\ [][NextTrain]_vars

\* train() is straight-line sequential code: it keeps running until it returns
SpecTrainFair == SpecTrain /\ WF_vars(NextTrain)

(***************************************************************************)
(* Reference semantics on the tree itself, used by the properties below.   *)
(***************************************************************************)
N == Cardinality(tree.nodes)
built == pc # "feed"
NodeAt(k) == nodes_list[k + 1]
Internal == {k \in 0..(N - 1) : ~isLeaf(tree, NodeAt(k))}

\* bottom-up evaluation of a node: the embedding row of a leaf's word id, or
\* relu(W1 . [left ; right] + b1) of the two children, left block first
RECURSIVE BottomUp(_)
BottomUp(p) ==
  IF left(p) \notin tree.nodes
  THEN <<[emb |-> IF tree.word[p] \in DOMAIN vocab THEN vocab[tree.word[p]] ELSE unknown]>>
  ELSE <<[relu |-> BottomUp(left(p)) \o BottomUp(right(p))]>>

(***************************************************************************)
(* C1: build_feed_dict yields one record per tree node; an internal node   *)
(* at position k has leftIndex and rightIndex in 0..k-1, naming the        *)
(* positions of its own left and right child; a leaf has both indices -1.  *)
(***************************************************************************)
C1_ChildrenBeforeParent ==
  built =>
    /\ Len(nodes_list) = N
    /\ Range(nodes_list) = tree.nodes
    /\ \A f \in {"is_leaf", "left_children", "right_children",
                 "node_word_indices", "labels"} : DOMAIN feed_dict[f] = 0..(N - 1)
    /\ \A k \in 0..(N - 1) :
         /\ feed_dict.is_leaf[k] = (left(NodeAt(k)) \notin tree.nodes)
         /\ IF feed_dict.is_leaf[k]
            THEN /\ feed_dict.left_children[k] = -1
                 /\ feed_dict.right_children[k] = -1
            ELSE /\ feed_dict.left_children[k] \in 0..(k - 1)
                 /\ feed_dict.right_children[k] \in 0..(k - 1)
                 /\ NodeAt(feed_dict.left_children[k]) = left(NodeAt(k))
                 /\ NodeAt(feed_dict.right_children[k]) = right(NodeAt(k))

\* a five-node tree is flattened and some child is not adjacent to its parent
C1_Witness ==
  /\ pc = "loop"
  /\ N = 5
  /\ \E k \in Internal : feed_dict.left_children[k] < k - 2

(***************************************************************************)
(* C2: the loop processes 0, 1, ..., N-1 in increasing order, writes entry *)
(* k exactly once, at step k, and reads a child index only at a step after *)
(* the one that wrote it; no read or write ever fails.                     *)
(***************************************************************************)
C2_WriteBeforeRead ==
  /\ pc # "error"
  /\ writes = [k \in 1..i |-> k - 1]
  /\ DOMAIN tensor_array = 0..(i - 1)
  /\ i <= Size(feed_dict.is_leaf)
  /\ \A r \in 1..Len(reads) : reads[r].index \in 0..(reads[r].step - 1)
  /\ pc = "done" =>
       /\ i = N
       /\ \A k \in Internal :
            \E r \in 1..(Len(reads) - 1) :
              /\ reads[r] = [step |-> k, index |-> feed_dict.left_children[k]]
              /\ reads[r + 1] = [step |-> k, index |-> feed_dict.right_children[k]]
       /\ Len(reads) = 2 * Cardinality(Internal)

\* a five-node tree has gone through the loop: five writes, four reads
C2_Witness ==
  /\ pc = "done"
  /\ Len(writes) = 5
  /\ Len(reads) = 4

(***************************************************************************)
(* C3: every table entry equals the bottom-up evaluation of its node, with *)
(* the left child's vector first; at the end of the loop the table holds   *)
(* exactly N entries; exchanging the child indices of an internal node     *)
(* whose children hold different vectors changes the composed input.       *)
(***************************************************************************)
C3_TableIsBottomUp ==
  /\ \A k \in DOMAIN tensor_array : tensor_array[k] = BottomUp(NodeAt(k))
  /\ pc = "done" =>
       /\ DOMAIN tensor_array = 0..(N - 1)
       /\ \A k \in Internal :
            LET l == tensor_array[feed_dict.left_children[k]]
                r == tensor_array[feed_dict.right_children[k]]
            IN  /\ tensor_array[k] = combine_children(l, r)
                /\ l # r => combine_children(l, r) # combine_children(r, l)

\* the root of a five-node tree is composed from two different vectors
C3_Witness ==
  /\ pc = "done"
  /\ N = 5
  /\ tensor_array[feed_dict.left_children[N - 1]]
       # tensor_array[feed_dict.right_children[N - 1]]

(***************************************************************************)
(* C4: the nodes with a cross-entropy term in full_loss are exactly the    *)
(* nodes labelled 0 or 1; a node labelled 2 has no term but has its row in *)
(* the table and in the per-node logits.                                   *)
(***************************************************************************)
C4_LossExcludesSentinel ==
  pc = "done" =>
    /\ {NodeAt(t.node) : t \in fetched.full_loss}
         = {p \in tree.nodes : tree.label[p] \in {0, 1}}
    /\ \A t \in fetched.full_loss :
         t.term = [logits |-> [logits_of |-> BottomUp(NodeAt(t.node))],
                   labels |-> tree.label[NodeAt(t.node)]]
    /\ Cardinality(fetched.full_loss)
         = Cardinality({p \in tree.nodes : tree.label[p] \in {0, 1}})
    /\ \A k \in 0..(N - 1) :
         tree.label[NodeAt(k)] = 2 =>
           /\ k \in DOMAIN tensor_array
           /\ k \in DOMAIN fetched.logits
           /\ \A t \in fetched.full_loss : t.node # k

\* a tree with a node of each label has been evaluated
C4_Witness ==
  /\ pc = "done"
  /\ \A l \in {0, 1, 2} : \E p \in tree.nodes : tree.label[p] = l

(***************************************************************************)
(* C9: the root is the last record (position N-1); root_logits, the root   *)
(* prediction and the root loss are those of the root node, and the root   *)
(* loss carries the root's label, the sentinel 2 included.                 *)
(***************************************************************************)
C9_RootIsLast ==
  /\ built => NodeAt(N - 1) = Root
  /\ pc = "done" =>
       /\ fetched.root_logits = [logits_of |-> BottomUp(Root)]
       /\ fetched.root_prediction = [argmax |-> [logits_of |-> BottomUp(Root)]]
       /\ fetched.root_loss = [logits |-> [logits_of |-> BottomUp(Root)],
                               labels |-> tree.label[Root]]

\* an internal root labelled 2 whose first record holds another vector
C9_Witness ==
  /\ pc = "done"
  /\ N >= 3
  /\ tree.label[Root] = 2
  /\ tree.label[NodeAt(0)] # 2
  /\ \A t \in fetched.full_loss : t.node # N - 1

(***************************************************************************)
(* Properties of train()                                                   *)
(***************************************************************************)
\* the temp checkpoint written at the end of epoch e of a run that began
\* with fresh parameters in epoch 0
TempSavedIn(e) == [fresh |-> 0, updates |-> (e + 1) * TrainSize]
AfterAnneal == tpc = "checkpoint"
AfterCheckpoint == tpc = "stopcheck"
DevLoss(e) == dev_hist[e + 1]

(***************************************************************************)
(* C5: after the AnnealCheck of an epoch the learning rate is the rate the *)
(* epoch began with divided by 1.5 if the epoch's mean training loss is    *)
(* strictly greater than 0.99 times the mean loss of the epoch before it,  *)
(* and that same rate otherwise; epoch 0 never anneals.                    *)
(***************************************************************************)
C5_AnnealRule ==
  AfterAnneal =>
    config_lr =
      IF /\ epoch > 0
         /\ Gt(mean(loss_history), Times(prev_mean, [num |-> 99, den |-> 100]))
      THEN Div(lr_before, [num |-> 3, den |-> 2])
      ELSE lr_before

\* epoch 1 repeated epoch 0's mean loss and the rate went from lr to lr/1.5
C5_Witness ==
  /\ AfterAnneal
  /\ epoch = 1
  /\ mean(loss_history) = prev_mean
  /\ lr_before = [num |-> 1, den |-> 100]
  /\ config_lr = [num |-> 2, den |-> 300]

(***************************************************************************)
(* C6 as claimed: after every CheckpointDecision best_val_loss is the      *)
(* minimum dev loss of the epochs so far, best_val_epoch the earliest      *)
(* epoch attaining it, the best slot a copy of that epoch's temp           *)
(* checkpoint, and the slot is rewritten in an epoch iff the epoch's dev   *)
(* loss is strictly lower than the best seen before it.                    *)
(***************************************************************************)
BestBefore(e) ==
  LET S == {k \in 0..(e - 1) : Lt(DevLoss(k), inf)}
  IN  IF S = {} THEN inf
      ELSE DevLoss(CHOOSE k \in S : \A j \in S : ~Lt(DevLoss(j), DevLoss(k)))

RewrittenIffLower ==
  (best_ckpt = TempSavedIn(epoch)) <=> Lt(DevLoss(epoch), BestBefore(epoch))

BestIsMinimum(S) ==
  /\ \E k \in S : best_val_loss = DevLoss(k)
  /\ \A k \in S : ~Lt(DevLoss(k), best_val_loss)
  /\ best_val_epoch \in S
  /\ DevLoss(best_val_epoch) = best_val_loss
  /\ \A k \in S : DevLoss(k) = best_val_loss => best_val_epoch <= k
  /\ best_ckpt = TempSavedIn(best_val_epoch)

C6_BestIsMinimumOfAll ==
  AfterCheckpoint => BestIsMinimum(0..epoch) /\ RewrittenIffLower

(***************************************************************************)
(* C6 amended: the minimum is taken over the epochs whose dev loss is      *)
(* below +inf (a NaN dev loss never is); while there is no such epoch      *)
(* best_val_loss is +inf, best_val_epoch is 0 and the best slot has never  *)
(* been written.                                                           *)
(***************************************************************************)
C6_BestIsMinimumOfComparable ==
  AfterCheckpoint =>
    LET S == {k \in 0..epoch : Lt(DevLoss(k), inf)}
    IN  /\ IF S = {}
           THEN best_val_loss = inf /\ best_val_epoch = 0 /\ best_ckpt = NoFile
           ELSE BestIsMinimum(S)
        /\ RewrittenIffLower

\* a NaN dev loss, then an improvement, then a tie that leaves the slot alone
C6_Witness ==
  /\ AfterCheckpoint
  /\ dev_hist = <<nan, Num(99, 1), Num(99, 1)>>
  /\ best_val_epoch = 1
  /\ best_ckpt = TempSavedIn(1)

C8_RestoreReadsLatestSave ==
  /\ tpc # "error"
  /\ tpc = "train" =>
       /\ session = [fresh |-> 0, updates |-> epoch * TrainSize + step]
       /\ temp_ckpt = IF epoch = 0 THEN NoFile ELSE TempSavedIn(epoch - 1)
       /\ last_restore =
            IF epoch = 0 THEN NoRestore
            ELSE [by |-> "run_epoch", epoch |-> epoch, params |-> TempSavedIn(epoch - 1)]
  /\ tpc \in {"predict_train", "predict_dev", "anneal", "checkpoint", "stopcheck"} =>
       /\ temp_ckpt = TempSavedIn(epoch)
       /\ session = NoSession
  /\ tpc = "predict_dev" =>
       last_restore = [by |-> "predict_train", epoch |-> epoch,
                       params |-> TempSavedIn(epoch)]
  /\ tpc \in {"anneal", "checkpoint", "stopcheck"} =>
       last_restore = [by |-> "predict_dev", epoch |-> epoch,
                       params |-> TempSavedIn(epoch)]

\* the third epoch is training on what the second one saved
C8_Witness ==
  /\ tpc = "train"
  /\ epoch = 2
  /\ step = 1
  /\ last_restore.by = "run_epoch"
  /\ session.updates = 2 * TrainSize + 1

(***************************************************************************)
(* C10: every parameter update uses the configuration's current learning   *)
(* rate as its step size.                                                  *)
(***************************************************************************)
C10_StepSizeIsConfigLr ==
  (tpc = "train" /\ step > 0) => applied = config_lr

====
